---- MODULE Spec2Model ----
(***************************************************************************)
(* Shotclassif: a pool of worker threads decodes the images of a directory *)
(* and hands them to a single consumer through a bounded channel; the      *)
(* consumer moves or skips the displayed image on every key press.         *)
(*                                                                         *)
(* Spec    models src/src/main.rs (main, run_app, App).                    *)
(* SpecApp models src/src/app.rs  (App::new, impl Drop for App).           *)
(* SpecPool is main.rs on a catalog larger than the channel, FairPool the  *)
(* same under fair scheduling of the threads. SpecVM is viewmodel.rs over  *)
(* the App of app.rs.                                                      *)
(* The worker loop is the same code in both files and is shared.           *)
(***************************************************************************)
EXTENDS Integers, Sequences, FiniteSets, TLC

\* ------------------------------------------------------------- bounds
MaxImages  == 3   \* largest catalog of Spec
MaxWorkers == 2   \* largest value of available_parallelism()
MaxFaults  == 1   \* most images that fail to decode plus files already in dest
AppExtra   == 2   \* SpecApp: catalog sizes up to the channel capacity + AppExtra
MaxKeys    == 3   \* SpecVM: most calls of ViewModel::on_key
PoolExtra  == 1   \* SpecPool: catalog sizes up to the channel capacity + PoolExtra

\* ------------------------------------------------- program constants
MAIN_BUFSIZE          == 4   \* sync_channel::<ProcessedImg>(4)
PROCESSED_IMG_BUFSIZE == 7   \* const PROCESSED_IMG_BUFSIZE: usize = 7

Workers == 1..MaxWorkers
Keys    == {"x", "s", "u"}                       \* 'u' has no entry in dists
dists   == ("x" :> "dest") @@ ("s" :> "skip")    \* Config.dists

VARIABLES
    \* fixed at start-up
    dir_ok,               \* config.dir is a directory that can be read
    par,                  \* available_parallelism(): 0 for Err, else the value
    img_num,              \* images.len()
    worker_num,           \* number of workers to spawn
    corrupt,              \* indices whose file fails to open or decode
    cap,                  \* capacity of the sync_channel
    \* worker pool
    next_idx,             \* the shared AtomicUsize
    spawned,              \* workers spawned so far
    tx_alive,             \* the spawning thread still holds the original tx
    wpc,                  \* worker -> "idle" | "claim" | "decode" | "send" | "done"
    widx,                 \* worker -> the index it claimed (0 while it holds none)
    queue,                \* the channel's buffer (indices of the ProcessedImg)
    rx_alive,             \* the Receiver has not been dropped
    \* consumer (main thread)
    mpc,                  \* position of the main thread
    current_img,          \* Option<ProcessedImg>: <<>> or <<idx>>
    processed_num,
    should_quit,
    last_action_message,
    key,                  \* the key on_key is handling
    move_res,             \* result of move_current_image in this on_key
    key_res,              \* result of the last on_key
    res,                  \* result of run_app
    fs,                   \* the file system
    handles,              \* app.rs: Vec<JoinHandle<()>>
    \* history
    pre,                  \* consumer state and file system at the call of on_key
    sent_set,             \* indices ever enqueued
    sent_total,           \* number of successful enqueues
    delivered,            \* number of successful receives
    acts,                 \* index -> number of recorded actions (move or skip)
    stale,                \* a move was attempted on an index already acted on
    claims,               \* index -> number of times fetch_add handed it out
    over,                 \* worker -> number of its claims with idx >= img_num
    only_moves,           \* every key given to on_key so far names a directory
    \* viewmodel.rs
    vm,                   \* the ViewModel: NoVM before new_from_app has returned it
    vm_pre,               \* the ViewModel at the call of ViewModel::on_key
    vm_calls              \* number of calls of ViewModel::on_key

config_vars == <<dir_ok, par, img_num, worker_num, corrupt, cap>>
pool_vars   == <<next_idx, spawned, tx_alive, wpc, widx, queue, rx_alive>>
app_vars    == <<mpc, current_img, processed_num, should_quit, last_action_message,
                 key, move_res, key_res, res, fs, handles>>
claim_vars  == <<claims, over>>
hist_vars   == <<pre, sent_set, sent_total, delivered, acts, stale, claim_vars, only_moves>>
vm_vars     == <<vm, vm_pre, vm_calls>>
vars        == <<config_vars, pool_vars, app_vars, hist_vars, vm_vars>>

NoVM == <<>>

Images == 0..(img_num - 1)

\* The consumer state and file system a frame condition compares against.
Snapshot ==
    [current_img |-> current_img, processed_num |-> processed_num,
     last_action_message |-> last_action_message, delivered |-> delivered, fs |-> fs]

\* let worker_num = available_parallelism().unwrap_or(1).get();   (0 stands for Err)
WorkerNumMain(p) == IF p = 0 THEN 1 ELSE p

\* match available_parallelism() { Ok(n) => n.get() - 1, Err(_) => 1 }
WorkerNumApp(p) == IF p = 0 THEN 1 ELSE p - 1

\* A sender exists while the original tx or a running worker's clone is alive.
SendersAlive == tx_alive \/ \E w \in Workers : wpc[w] \in {"claim", "decode", "send"}

\* ---------------------------------------------------------------- Init
InitCommon ==
    /\ corrupt \in {c \in SUBSET Images : Cardinality(c) <= MaxFaults}
    /\ next_idx = 0
    /\ spawned = 0
    /\ tx_alive = TRUE
    /\ wpc = [w \in Workers |-> "idle"]
    /\ widx = [w \in Workers |-> 0]
    /\ queue = <<>>
    /\ rx_alive = TRUE
    /\ current_img = <<>>
    /\ processed_num = 0
    /\ should_quit = FALSE
    /\ last_action_message = <<>>
    /\ key = "none"
    /\ move_res = "none"
    /\ key_res = "none"
    /\ res = "none"
    /\ handles = <<>>
    /\ \E p \in {s \in SUBSET Images : Cardinality(s) + Cardinality(corrupt) <= MaxFaults} :
          fs = [src      |-> Images,
                dest     |-> [n \in Images |-> IF n \in p THEN "pre" ELSE "none"],
                dest_dir |-> p # {}]
    /\ sent_set = {}
    /\ sent_total = 0
    /\ delivered = 0
    /\ acts = [i \in Images |-> 0]
    /\ stale = FALSE
    /\ claims = [i \in Images |-> 0]
    /\ over = [w \in Workers |-> 0]
    /\ only_moves = TRUE
    /\ vm = NoVM
    /\ vm_pre = NoVM
    /\ vm_calls = 0
    /\ pre = Snapshot

\* main.rs: main() up to the creation of the channel
Init ==
    /\ dir_ok \in BOOLEAN
    /\ img_num \in (IF dir_ok THEN 0..MaxImages ELSE {0})
    /\ par \in 0..MaxWorkers
    /\ worker_num = WorkerNumMain(par)
    /\ cap = MAIN_BUFSIZE
    /\ mpc = "start"
    /\ InitCommon

\* ------------------------------------------------------------- workers
\* Claim with a load followed by a store in place of fetch_add: the value read
\* may be one that another worker has already been given.
ClaimLoadStore(w) ==
    /\ wpc[w] = "claim"
    /\ next_idx' = next_idx + 1
    /\ \E idx \in {next_idx, IF next_idx > 0 THEN next_idx - 1 ELSE 0} :
          IF idx >= img_num
             THEN /\ wpc' = [wpc EXCEPT ![w] = "done"]
                  /\ widx' = [widx EXCEPT ![w] = 0]
                  /\ over' = [over EXCEPT ![w] = @ + 1]
                  /\ UNCHANGED claims
             ELSE /\ wpc' = [wpc EXCEPT ![w] = "decode"]
                  /\ widx' = [widx EXCEPT ![w] = idx]
                  /\ claims' = [claims EXCEPT ![idx] = @ + 1]
                  /\ UNCHANGED over
    /\ UNCHANGED <<vm_vars, config_vars, spawned, tx_alive, queue, rx_alive, app_vars,
                   pre, sent_set, sent_total, delivered, acts, stale, only_moves>>

\* The worker loop with the test  if idx + 1 >= img_num { break; }
ClaimExitEarly(w) ==
    /\ wpc[w] = "claim"
    /\ next_idx' = next_idx + 1
    /\ IF next_idx + 1 >= img_num
          THEN /\ wpc' = [wpc EXCEPT ![w] = "done"]
               /\ widx' = [widx EXCEPT ![w] = 0]
               /\ over' = [over EXCEPT ![w] = IF next_idx >= img_num THEN @ + 1 ELSE @]
               /\ UNCHANGED claims
          ELSE /\ wpc' = [wpc EXCEPT ![w] = "decode"]
               /\ widx' = [widx EXCEPT ![w] = next_idx]
               /\ claims' = [claims EXCEPT ![next_idx] = @ + 1]
               /\ UNCHANGED over
    /\ UNCHANGED <<vm_vars, config_vars, spawned, tx_alive, queue, rx_alive, app_vars,
                   pre, sent_set, sent_total, delivered, acts, stale, only_moves>>

\* let idx = next_idx.fetch_add(1, Relaxed); if idx >= img_num { break; }
Claim(w) ==
    /\ wpc[w] = "claim"
    /\ next_idx' = next_idx + 1
    /\ IF next_idx >= img_num
          THEN /\ wpc' = [wpc EXCEPT ![w] = "done"]
               /\ widx' = [widx EXCEPT ![w] = 0]
               /\ over' = [over EXCEPT ![w] = @ + 1]
               /\ UNCHANGED claims
          ELSE /\ wpc' = [wpc EXCEPT ![w] = "decode"]
               /\ widx' = [widx EXCEPT ![w] = next_idx]
               /\ claims' = [claims EXCEPT ![next_idx] = @ + 1]
               /\ UNCHANGED over
    /\ UNCHANGED <<vm_vars, config_vars, spawned, tx_alive, queue, rx_alive, app_vars,
                   pre, sent_set, sent_total, delivered, acts, stale, only_moves>>

\* The worker loop with  break  in place of  continue  after a failed open
\* or decode: the worker that met the failure stops.
DecodeBreak(w) ==
    /\ wpc[w] = "decode"
    /\ IF widx[w] \in corrupt \/ widx[w] \notin fs.src
          THEN /\ wpc' = [wpc EXCEPT ![w] = "done"]
               /\ widx' = [widx EXCEPT ![w] = 0]
          ELSE /\ wpc' = [wpc EXCEPT ![w] = "send"]
               /\ UNCHANGED widx
    /\ UNCHANGED <<vm_vars, config_vars, next_idx, spawned, tx_alive, queue, rx_alive,
                   app_vars, hist_vars>>

\* ImageReader::open(..) / reader.decode(): on failure eprintln and continue
Decode(w) ==
    /\ wpc[w] = "decode"
    /\ IF widx[w] \in corrupt \/ widx[w] \notin fs.src
          THEN /\ wpc' = [wpc EXCEPT ![w] = "claim"]
               /\ widx' = [widx EXCEPT ![w] = 0]
          ELSE /\ wpc' = [wpc EXCEPT ![w] = "send"]
               /\ UNCHANGED widx
    /\ UNCHANGED <<vm_vars, config_vars, next_idx, spawned, tx_alive, queue, rx_alive,
                   app_vars, hist_vars>>

\* The worker loop over an unbounded channel() in place of sync_channel(cap):
\* send never waits for room.
SendUnbounded(w) ==
    /\ wpc[w] = "send"
    /\ widx' = [widx EXCEPT ![w] = 0]
    /\ \/ /\ ~rx_alive
          /\ wpc' = [wpc EXCEPT ![w] = "done"]
          /\ UNCHANGED <<queue, sent_set, sent_total>>
       \/ /\ rx_alive
          /\ queue' = Append(queue, widx[w])
          /\ wpc' = [wpc EXCEPT ![w] = "claim"]
          /\ sent_set' = sent_set \cup {widx[w]}
          /\ sent_total' = sent_total + 1
    /\ UNCHANGED <<vm_vars, config_vars, next_idx, spawned, tx_alive, rx_alive, app_vars,
                   pre, delivered, acts, stale,
                   claim_vars, only_moves>>

\* if tx.send(ProcessedImg { state, idx }).is_err() { break; }
\* send blocks while the buffer is full and fails once the receiver is dropped
Send(w) ==
    /\ wpc[w] = "send"
    /\ widx' = [widx EXCEPT ![w] = 0]
    /\ \/ /\ ~rx_alive
          /\ wpc' = [wpc EXCEPT ![w] = "done"]
          /\ UNCHANGED <<queue, sent_set, sent_total>>
       \/ /\ rx_alive
          /\ Len(queue) < cap
          /\ queue' = Append(queue, widx[w])
          /\ wpc' = [wpc EXCEPT ![w] = "claim"]
          /\ sent_set' = sent_set \cup {widx[w]}
          /\ sent_total' = sent_total + 1
    /\ UNCHANGED <<vm_vars, config_vars, next_idx, spawned, tx_alive, rx_alive, app_vars,
                   pre, delivered, acts, stale,
                   claim_vars, only_moves>>

Blocked(w) == wpc[w] = "send" /\ rx_alive /\ Len(queue) >= cap

\* ------------------------------------------------- main.rs: main thread
\* main without the test  if images.is_empty(): an empty catalog goes on.
StartupNoEmptyCheck ==
    /\ mpc = "start"
    /\ IF ~dir_ok
          THEN res' = "err" /\ mpc' = "exit"
          ELSE res' = res /\ mpc' = "spawn"
    /\ UNCHANGED <<vm_vars, config_vars, pool_vars, current_img, processed_num, should_quit,
                   last_action_message, key, move_res, key_res, fs, handles,
                   hist_vars>>

\* if !dir.exists() || !dir.is_dir() { return Err(..) }
\* let images = &find_images_in_dir(dir)?; if images.is_empty() { return Err(..) }
Startup ==
    /\ mpc = "start"
    /\ IF ~dir_ok \/ img_num = 0
          THEN res' = "err" /\ mpc' = "exit"
          ELSE res' = res /\ mpc' = "spawn"
    /\ UNCHANGED <<vm_vars, config_vars, pool_vars, current_img, processed_num, should_quit,
                   last_action_message, key, move_res, key_res, fs, handles,
                   hist_vars>>

\* for _ in 0..worker_num { ... s.spawn(..) }
Spawn ==
    /\ mpc = "spawn"
    /\ spawned < worker_num
    /\ spawned' = spawned + 1
    /\ wpc' = [wpc EXCEPT ![spawned + 1] = "claim"]
    /\ UNCHANGED <<vm_vars, config_vars, next_idx, tx_alive, widx, queue, rx_alive, app_vars,
                   hist_vars>>

\* main without  drop(tx): the original sender lives as long as the scope.
DropTxMissing ==
    /\ mpc = "spawn"
    /\ spawned = worker_num
    /\ tx_alive' = tx_alive
    /\ mpc' = "first"
    /\ UNCHANGED <<vm_vars, config_vars, next_idx, spawned, wpc, widx, queue, rx_alive,
                   current_img, processed_num, should_quit, last_action_message,
                   key, move_res, key_res, res, fs, handles, hist_vars>>

\* drop(tx); let mut app = App::new(config, rx, images); run_app(..)
DropTx ==
    /\ mpc = "spawn"
    /\ spawned = worker_num
    /\ tx_alive' = FALSE
    /\ mpc' = "first"
    /\ UNCHANGED <<vm_vars, config_vars, next_idx, spawned, wpc, widx, queue, rx_alive,
                   current_img, processed_num, should_quit, last_action_message,
                   key, move_res, key_res, res, fs, handles, hist_vars>>

\* run_app returns r; the closure of thread::scope returns with it, which drops
\* app and with it the Receiver (and the buffered images); the scope then joins.
ScopeReturn(r) ==
    /\ res' = r
    /\ rx_alive' = FALSE
    /\ queue' = <<>>
    /\ mpc' = "join"

\* run_app with  let _ = app.update_imgstate();  before the loop: the loop
\* is entered also when the first receive reports the disconnect.
FirstRecvIgnored ==
    /\ mpc = "first"
    /\ \/ /\ queue # <<>>
          /\ current_img' = <<Head(queue)>>
          /\ queue' = Tail(queue)
          /\ delivered' = delivered + 1
       \/ /\ queue = <<>>
          /\ ~SendersAlive
          /\ UNCHANGED <<current_img, queue, delivered>>
    /\ mpc' = "loop"
    /\ UNCHANGED <<res, rx_alive>>
    /\ UNCHANGED <<vm_vars, config_vars, next_idx, spawned, tx_alive, wpc, widx,
                   processed_num, should_quit, last_action_message, key, move_res, key_res, fs,
                   handles, sent_set, sent_total, acts, stale,
                   claim_vars, only_moves>>
    /\ pre' = Snapshot'

\* run_app: app.update_imgstate()?;  before the loop
FirstRecv ==
    /\ mpc = "first"
    /\ \/ /\ queue # <<>>
          /\ current_img' = <<Head(queue)>>
          /\ queue' = Tail(queue)
          /\ delivered' = delivered + 1
          /\ mpc' = "loop"
          /\ UNCHANGED <<res, rx_alive>>
       \/ /\ queue = <<>>
          /\ ~SendersAlive
          /\ ScopeReturn("err")
          /\ UNCHANGED <<current_img, delivered>>
    /\ UNCHANGED <<vm_vars, config_vars, next_idx, spawned, tx_alive, wpc, widx,
                   processed_num, should_quit, last_action_message, key, move_res, key_res, fs,
                   handles, sent_set, sent_total, acts, stale,
                   claim_vars, only_moves>>
    /\ pre' = Snapshot'

\* get_imgname that takes the images in catalog order:
\* &self.images[self.processed_num]
get_imgname_by_arrival == processed_num

\* fn get_imgname(&self): &self.images[self.current_img.as_ref().unwrap().idx]
get_imgname == current_img[1]

MoveErrors == {"err_mkdir", "err_collision", "err_rename"}

\* move_current_image without the test  if !new_image_path.exists():
\* fs::rename replaces a file that is already at the destination.
MoveOverwrite(dist) ==
    LET i   == current_img[1]
        fs1 == [fs EXCEPT !.dest_dir = TRUE]
    IN  /\ stale' = (stale \/ acts[i] > 0)
        /\ \/ /\ ~fs.dest_dir
              /\ fs' = fs
              /\ move_res' = "err_mkdir"
              /\ UNCHANGED <<last_action_message, acts>>
           \/ /\ fs' = fs1
              /\ move_res' = "err_rename"
              /\ UNCHANGED <<last_action_message, acts>>
           \/ /\ i \in fs.src
              /\ fs' = [fs1 EXCEPT !.src = @ \ {i}, !.dest[i] = "src"]
              /\ last_action_message' = <<"move", i, dist>>
              /\ acts' = [acts EXCEPT ![i] = @ + 1]
              /\ move_res' = "ok"

\* fn move_current_image(&mut self, dist: &str) -> Result<()>
MoveCurrentImage(dist) ==
    LET i   == get_imgname
        fs1 == [fs EXCEPT !.dest_dir = TRUE]      \* fs::create_dir_all(dist) succeeded
    IN  /\ stale' = (stale \/ acts[i] > 0)
        /\ \/ /\ ~fs.dest_dir                     \* create_dir_all fails
              /\ fs' = fs
              /\ move_res' = "err_mkdir"
              /\ UNCHANGED <<last_action_message, acts>>
           \/ /\ fs1.dest[i] # "none"             \* new_image_path.exists()
              /\ fs' = fs1
              /\ move_res' = "err_collision"
              /\ UNCHANGED <<last_action_message, acts>>
           \/ /\ fs1.dest[i] = "none"             \* fs::rename fails
              /\ fs' = fs1
              /\ move_res' = "err_rename"
              /\ UNCHANGED <<last_action_message, acts>>
           \/ /\ fs1.dest[i] = "none"             \* fs::rename succeeds
              /\ i \in fs.src
              /\ fs' = [fs1 EXCEPT !.src = @ \ {i}, !.dest[i] = "src"]
              /\ last_action_message' = <<"move", i, dist>>
              /\ acts' = [acts EXCEPT ![i] = @ + 1]
              /\ move_res' = "ok"

\* on_key without the special case: "skip" is taken for a directory name.
SkipAsDirectory == MoveCurrentImage("skip")

\* on_key, the branch  if dist == "skip"
SkipCurrentImage ==
    /\ last_action_message' = <<"skip", get_imgname>>
    /\ acts' = [acts EXCEPT ![get_imgname] = @ + 1]
    /\ move_res' = "none"
    /\ UNCHANGED <<fs, stale>>

\* on_key with  let _ = self.move_current_image(..)  in place of the `?`:
\* the error of the move is dropped and the handler goes on.
OnKeyIgnoreError(c) ==
    /\ mpc = "loop"
    /\ key' = c
    /\ pre' = Snapshot
    /\ only_moves' = (only_moves /\ c \in DOMAIN dists /\ dists[c] # "skip")
    /\ IF c \in DOMAIN dists
          THEN IF dists[c] = "skip"
                  THEN SkipCurrentImage
                  ELSE MoveCurrentImage(dists[c])
          ELSE /\ move_res' = "none"
               /\ UNCHANGED <<fs, last_action_message, acts, stale>>
    /\ key_res' = "none"
    /\ mpc' = "recv"
    /\ UNCHANGED <<vm_vars, config_vars, pool_vars, current_img, processed_num, should_quit,
                   res, handles, sent_set, sent_total, delivered, claim_vars>>

\* fn on_key(&mut self, key: char) -> Result<()>, up to the blocking receive.
\* run_app calls it for every KeyCode::Char(c) press that is not a key repeat
\* (pressed_keys only filters repeats: after a release any key can be pressed
\* again, so every sequence of calls is possible and the set is not kept).
OnKey(c) ==
    /\ mpc = "loop"
    /\ key' = c
    /\ pre' = Snapshot
    /\ only_moves' = (only_moves /\ c \in DOMAIN dists /\ dists[c] # "skip")
    /\ IF c \in DOMAIN dists
          THEN IF dists[c] = "skip"
                  THEN SkipCurrentImage
                  ELSE MoveCurrentImage(dists[c])
          ELSE /\ move_res' = "none"
               /\ UNCHANGED <<fs, last_action_message, acts, stale>>
    /\ IF move_res' \in MoveErrors                \* self.move_current_image(..)?
          THEN key_res' = move_res' /\ mpc' = "key_ret"
          ELSE key_res' = "none" /\ mpc' = "recv"
    /\ UNCHANGED <<vm_vars, config_vars, pool_vars, current_img, processed_num, should_quit,
                   res, handles, sent_set, sent_total, delivered, claim_vars>>

\* on_key, the rest:  let _ = self.update_imgstate(); self.processed_num += 1; Ok(())
\* update_imgstate: let res = self.recver.recv()?; self.current_img = Some(res);
OnKeyUpdate ==
    /\ mpc = "recv"
    /\ \/ /\ queue # <<>>
          /\ current_img' = <<Head(queue)>>
          /\ queue' = Tail(queue)
          /\ delivered' = delivered + 1
       \/ /\ queue = <<>>
          /\ ~SendersAlive
          /\ UNCHANGED <<current_img, queue, delivered>>
    /\ processed_num' = processed_num + 1
    /\ key_res' = "ok"
    /\ mpc' = "key_ret"
    /\ UNCHANGED <<vm_vars, config_vars, next_idx, spawned, tx_alive, wpc, widx, rx_alive,
                   should_quit, last_action_message, key, move_res, res, fs,
                   handles, pre, sent_set, sent_total, acts, stale,
                   claim_vars, only_moves>>

\* run_app with the finish test  app.processed_num > image_num
AfterKeyStrict ==
    /\ mpc = "key_ret"
    /\ IF key_res # "ok"
          THEN /\ ScopeReturn("err")
               /\ UNCHANGED <<key, move_res, key_res>>
          ELSE /\ key' = "none"
               /\ move_res' = "none"
               /\ key_res' = "none"
               /\ IF processed_num > img_num
                     THEN ScopeReturn("ok")
                     ELSE UNCHANGED <<res, rx_alive, queue>> /\ mpc' = "loop"
    /\ pre' = Snapshot
    /\ UNCHANGED <<vm_vars, config_vars, next_idx, spawned, tx_alive, wpc, widx, current_img,
                   processed_num, should_quit, last_action_message, fs, handles,
                   sent_set, sent_total, delivered, acts, stale,
                   claim_vars, only_moves>>

\* run_app:  app.on_key(c)?; pressed_keys.insert(key.code);  and the test
\* if app.should_quit || app.processed_num >= image_num { return Ok(()) }
AfterKey ==
    /\ mpc = "key_ret"
    /\ IF key_res # "ok"
          THEN /\ ScopeReturn("err")
               /\ UNCHANGED <<key, move_res, key_res>>
          ELSE /\ key' = "none"
               /\ move_res' = "none"
               /\ key_res' = "none"
               /\ IF processed_num >= img_num
                     THEN ScopeReturn("ok")
                     ELSE UNCHANGED <<res, rx_alive, queue>> /\ mpc' = "loop"
    /\ pre' = Snapshot
    /\ UNCHANGED <<vm_vars, config_vars, next_idx, spawned, tx_alive, wpc, widx, current_img,
                   processed_num, should_quit, last_action_message, fs, handles,
                   sent_set, sent_total, delivered, acts, stale,
                   claim_vars, only_moves>>

\* run_app with the arm for 'q' counted like a handled key: the quit also
\* advances processed_num.
PressQuitCounted ==
    /\ mpc = "loop"
    /\ should_quit' = TRUE
    /\ processed_num' = processed_num + 1
    /\ ScopeReturn("ok")
    /\ UNCHANGED <<vm_vars, config_vars, next_idx, spawned, tx_alive, wpc, widx, current_img,
                   last_action_message, key, move_res, key_res, fs, handles,
                   hist_vars>>

\* run_app:  KeyCode::Char('q') => app.should_quit = true,  then return Ok(())
PressQuit ==
    /\ mpc = "loop"
    /\ should_quit' = TRUE
    /\ ScopeReturn("ok")
    /\ UNCHANGED <<vm_vars, config_vars, next_idx, spawned, tx_alive, wpc, widx, current_img,
                   processed_num, last_action_message, key, move_res, key_res, fs, handles,
                   hist_vars>>

\* thread::scope joins every spawned thread before it returns
ScopeJoin ==
    /\ mpc = "join"
    /\ \A w \in Workers : wpc[w] \in {"idle", "done"}
    /\ mpc' = "exit"
    /\ UNCHANGED <<vm_vars, config_vars, pool_vars, current_img, processed_num, should_quit,
                   last_action_message, key, move_res, key_res, res, fs, handles, hist_vars>>

\* main.rs run on a catalog of decodable images larger than the channel, the
\* user answering every image with the skip key or quitting: the workers
\* fill the queue and wait.
InitPool ==
    /\ dir_ok = TRUE
    /\ img_num \in (MAIN_BUFSIZE + 1)..(MAIN_BUFSIZE + PoolExtra)
    /\ par \in 1..MaxWorkers
    /\ worker_num = WorkerNumMain(par)
    /\ cap = MAIN_BUFSIZE
    /\ mpc = "start"
    /\ InitCommon
    /\ corrupt = {}
    /\ \A i \in Images : fs.dest[i] = "none"      \* nothing is moved: dest is not looked at

\* ----------------------------------------------- app.rs: App::new, Drop
\* App::new(config) up to the creation of the channel
InitApp ==
    /\ dir_ok \in BOOLEAN
    /\ img_num \in (IF dir_ok
                      THEN {0} \cup PROCESSED_IMG_BUFSIZE..(PROCESSED_IMG_BUFSIZE + AppExtra)
                      ELSE {0})
    /\ par \in 0..(MaxWorkers + 1)
    /\ worker_num = WorkerNumApp(par)
    /\ cap = PROCESSED_IMG_BUFSIZE
    /\ mpc = "start"
    /\ InitCommon

\* if !config.dir.is_dir() { return Err(..) }
\* let imgs = find_images_in_dir(&config.dir)?; if imgs.is_empty() { return Err(..) }
AppStartup ==
    /\ mpc = "start"
    /\ IF ~dir_ok \/ img_num = 0
          THEN res' = "err" /\ mpc' = "exit"
          ELSE res' = res /\ mpc' = "new"
    /\ UNCHANGED <<vm_vars, config_vars, pool_vars, current_img, processed_num, should_quit,
                   last_action_message, key, move_res, key_res, fs, handles,
                   hist_vars>>

\* for _ in 0..worker_num { let handle = thread::spawn(..); handles.push(handle); }
AppSpawn ==
    /\ mpc = "new"
    /\ spawned < worker_num
    /\ spawned' = spawned + 1
    /\ wpc' = [wpc EXCEPT ![spawned + 1] = "claim"]
    /\ handles' = Append(handles, spawned + 1)
    /\ UNCHANGED <<vm_vars, config_vars, next_idx, tx_alive, widx, queue, rx_alive, mpc,
                   current_img, processed_num, should_quit, last_action_message, key,
                   move_res, key_res, res, fs, hist_vars>>

\* drop(tx); let app = App { .. }; return Ok(app);
AppNewReturn ==
    /\ mpc = "new"
    /\ spawned = worker_num
    /\ tx_alive' = FALSE
    /\ mpc' = "app"
    /\ UNCHANGED <<vm_vars, config_vars, next_idx, spawned, wpc, widx, queue, rx_alive,
                   current_img, processed_num, should_quit, last_action_message, key,
                   move_res, key_res, res, fs, handles, hist_vars>>

\* the App value goes out of scope: <App as Drop>::drop is entered
AppDropBegin ==
    /\ mpc = "app"
    /\ mpc' = "drop"
    /\ UNCHANGED <<vm_vars, config_vars, pool_vars, current_img, processed_num, should_quit,
                   last_action_message, key, move_res, key_res, res, fs, handles, hist_vars>>

\* while let Some(handle) = self.handles.pop() { handle.join().unwrap(); }
AppDropJoin ==
    /\ mpc = "drop"
    /\ handles # <<>>
    /\ wpc[handles[Len(handles)]] = "done"
    /\ handles' = SubSeq(handles, 1, Len(handles) - 1)
    /\ UNCHANGED <<vm_vars, config_vars, pool_vars, mpc, current_img, processed_num, should_quit,
                   last_action_message, key, move_res, key_res, res, fs, hist_vars>>

\* drop() has returned: only now are the fields of App, rx among them, dropped
AppDropFields ==
    /\ mpc = "drop"
    /\ handles = <<>>
    /\ rx_alive' = FALSE
    /\ queue' = <<>>
    /\ mpc' = "exit"
    /\ UNCHANGED <<vm_vars, config_vars, next_idx, spawned, tx_alive, wpc, widx, current_img,
                   processed_num, should_quit, last_action_message, key, move_res, key_res, res,
                   fs, handles, hist_vars>>

Next ==
    \/ \E w \in Workers : Claim(w)
    \/ \E w \in Workers : Decode(w)
    \/ \E w \in Workers : Send(w)
    \/ Startup
    \/ Spawn
    \/ DropTx
    \/ FirstRecv
    \/ \E c \in Keys : OnKey(c)
    \/ OnKeyUpdate
    \/ AfterKey
    \/ PressQuit
    \/ ScopeJoin

Spec == Init /\ [][Next]_vars

\* ------------------------------------- viewmodel.rs over the App of app.rs
\* App::get_img, App::on_key and App::log are called by viewmodel.rs but are
\* not in app.rs; they follow the design of the consumer: get_img is the
\* blocking receive (GetNext), on_key the action alone (OnKey), and the two
\* are separate operations.
InitVM ==
    /\ dir_ok \in BOOLEAN
    /\ img_num \in (IF dir_ok THEN 0..MaxImages ELSE {0})
    /\ par \in 1..(MaxWorkers + 1)               \* Ok(n): 0, 1, .. workers
    /\ worker_num = WorkerNumApp(par)
    /\ cap = PROCESSED_IMG_BUFSIZE
    /\ mpc = "start"
    /\ InitCommon

\* app.get_img(): the receive returns a task, which becomes the current image
\* and advances the progress of the App
App_get_img_ok ==
    /\ queue # <<>>
    /\ current_img' = <<Head(queue)>>
    /\ queue' = Tail(queue)
    /\ delivered' = delivered + 1
    /\ processed_num' = processed_num + 1

\* app.get_img(): the receive reports the disconnect and get_img returns Err
App_get_img_err ==
    /\ queue = <<>>
    /\ ~SendersAlive
    /\ UNCHANGED <<current_img, queue, delivered, processed_num>>

\* app.on_key(key): skip records the skip, a directory key moves the current
\* image (the error of the move is returned), an unmapped key does nothing
App_on_key(c) ==
    IF c \in DOMAIN dists
       THEN IF dists[c] = "skip"
               THEN SkipCurrentImage
               ELSE MoveCurrentImage(dists[c])
       ELSE /\ move_res' = "none"
            /\ UNCHANGED <<fs, last_action_message, acts, stale>>

\* pub fn new_from_app(app: &mut App) -> Result<Self>
ViewModel_new_from_app ==
    /\ mpc = "app"
    /\ \/ /\ App_get_img_ok                       \* let img_info = app.get_img()?;
          /\ vm' = [img      |-> current_img'[1],
                    img_path |-> current_img'[1],
                    progress |-> 0,
                    img_num  |-> img_num,
                    log      |-> <<>>,
                    is_fin   |-> FALSE]
          /\ mpc' = "vm"
       \/ /\ App_get_img_err
          /\ vm' = vm
          /\ mpc' = "no_vm"
    /\ UNCHANGED <<config_vars, next_idx, spawned, tx_alive, wpc, widx, rx_alive,
                   should_quit, last_action_message, key, move_res, key_res, res, fs,
                   handles, pre, sent_set, sent_total, acts, stale, claim_vars,
                   only_moves, vm_pre, vm_calls>>

\* ViewModel::on_key with  self.progress += 1  moved before  app.get_img()?
ViewModel_on_key_count_first ==
    /\ mpc = "vm_get"
    /\ \/ /\ App_get_img_ok
          /\ vm' = [vm EXCEPT !.img = current_img'[1],
                              !.img_path = current_img'[1],
                              !.progress = @ + 1,
                              !.log = last_action_message,
                              !.is_fin = (vm.progress + 1 >= vm.img_num)]
          /\ key_res' = "ok"
       \/ /\ App_get_img_err
          /\ vm' = [vm EXCEPT !.progress = @ + 1]
          /\ key_res' = "err"
    /\ mpc' = "vm"
    /\ UNCHANGED <<config_vars, next_idx, spawned, tx_alive, wpc, widx, rx_alive,
                   should_quit, last_action_message, key, move_res, res, fs,
                   handles, pre, sent_set, sent_total, acts, stale, claim_vars,
                   only_moves, vm_pre, vm_calls>>

\* pub fn on_key(&mut self, app: &mut App, key: char) -> Result<()>:
\* app.on_key(key)?;
ViewModel_on_key(c) ==
    /\ mpc = "vm"
    /\ vm_calls < MaxKeys
    /\ vm_calls' = vm_calls + 1
    /\ key' = c
    /\ vm_pre' = vm
    /\ App_on_key(c)
    /\ IF move_res' \in MoveErrors
          THEN key_res' = "err" /\ mpc' = "vm"
          ELSE key_res' = "none" /\ mpc' = "vm_get"
    /\ UNCHANGED <<config_vars, pool_vars, current_img, processed_num, should_quit,
                   res, handles, pre, sent_set, sent_total, delivered, claim_vars,
                   only_moves, vm>>

\* ViewModel::on_key, the rest:  let img_info = app.get_img()?;
\* self.img = ..; self.img_path = ..; self.progress += 1;
\* self.log = app.log.clone(); self.is_fin = self.progress >= self.img_num;
ViewModel_on_key_get_img ==
    /\ mpc = "vm_get"
    /\ \/ /\ App_get_img_ok
          /\ vm' = [vm EXCEPT !.img = current_img'[1],
                              !.img_path = current_img'[1],
                              !.progress = @ + 1,
                              !.log = last_action_message,
                              !.is_fin = (vm.progress + 1 >= vm.img_num)]
          /\ key_res' = "ok"
       \/ /\ App_get_img_err
          /\ vm' = vm
          /\ key_res' = "err"
    /\ mpc' = "vm"
    /\ UNCHANGED <<config_vars, next_idx, spawned, tx_alive, wpc, widx, rx_alive,
                   should_quit, last_action_message, key, move_res, res, fs,
                   handles, pre, sent_set, sent_total, acts, stale, claim_vars,
                   only_moves, vm_pre, vm_calls>>

NextVM ==
    \/ \E w \in Workers : Claim(w)
    \/ \E w \in Workers : Decode(w)
    \/ \E w \in Workers : Send(w)
    \/ AppStartup
    \/ AppSpawn
    \/ AppNewReturn
    \/ ViewModel_new_from_app
    \/ \E c \in Keys : ViewModel_on_key(c)
    \/ ViewModel_on_key_get_img

SpecVM == InitVM /\ [][NextVM]_vars

NextPool ==
    \/ \E w \in Workers : Claim(w)
    \/ \E w \in Workers : Decode(w)
    \/ \E w \in Workers : Send(w)
    \/ Startup
    \/ Spawn
    \/ DropTx
    \/ FirstRecv
    \/ OnKey("s")
    \/ OnKeyUpdate
    \/ AfterKey
    \/ PressQuit
    \/ ScopeJoin

SpecPool == InitPool /\ [][NextPool]_vars

\* Every thread that can take a step is scheduled: each worker thread, and
\* the main thread in the steps that do not wait for the user (a key press
\* and the quit key are input and are not forced).
Fairness ==
    /\ \A w \in Workers : WF_vars(Claim(w) \/ Decode(w) \/ Send(w))
    /\ WF_vars(Startup \/ Spawn \/ DropTx \/ FirstRecv \/ OnKeyUpdate \/ AfterKey \/ ScopeJoin)

FairPool == SpecPool /\ Fairness

NextApp ==
    \/ \E w \in Workers : Claim(w)
    \/ \E w \in Workers : Decode(w)
    \/ \E w \in Workers : Send(w)
    \/ AppStartup
    \/ AppSpawn
    \/ AppNewReturn
    \/ AppDropBegin
    \/ AppDropJoin
    \/ AppDropFields

SpecApp == InitApp /\ [][NextApp]_vars

\* ---------------------------------------------------------------- claims
InTeardown == mpc \in {"join", "drop"}
MappedToDir(c) == c \in DOMAIN dists /\ dists[c] # "skip"
Returned == mpc = "key_ret"          \* on_key has just returned to run_app

\* C1: at most img_num tasks are ever enqueued, every enqueued task carries an
\* index of the catalog, and no index is enqueued twice.
C1_DistinctTasks ==
    /\ sent_total <= img_num
    /\ sent_set \subseteq Images
    /\ Cardinality(sent_set) = sent_total

\* every image of a catalog of at least two was enqueued by a pool of two or more
C1_Witness == img_num >= 2 /\ spawned >= 2 /\ sent_total = img_num

\* C2: once the consumer has shut down, no worker stays blocked on a full queue
\* (the receiver has been released, so its enqueue fails) and the teardown can
\* always take a further step until the join has returned: it never deadlocks.
C2_TeardownNeverDeadlocks ==
    InTeardown => /\ \A w \in Workers : ~Blocked(w)
                  /\ ENABLED (Next \/ NextApp)

\* C3: no catalog index is the subject of more than one recorded action (move
\* or skip), and no move is attempted on an index that was already acted on.
C3_AtMostOnce == (\A i \in Images : acts[i] <= 1) /\ ~stale

\* C4: the progress counter changes only by a receive that yields a task, by
\* one each, so that in every state it is at most the number of tasks delivered.
C4_ProgressBounded == processed_num <= delivered

\* C5: when the queue is disconnected and empty and every delivered task has
\* been consumed, the consumer is Finished: it does not wait for further keys,
\* whether or not the progress counter has reached the catalog length.
C5_FinishedOnDisconnect ==
    (queue = <<>> /\ ~SendersAlive /\ delivered > 0 /\ processed_num >= delivered)
        => mpc # "loop"

\* C6: when the move of on_key fails, on_key returns that error, and the
\* displayed image, the progress counter and the action log are as they were
\* at the call and no task has been taken from the queue.
C6_FailedMoveLeavesState ==
    (Returned /\ move_res \in MoveErrors) =>
        /\ MappedToDir(key)
        /\ key_res = move_res
        /\ current_img = pre.current_img
        /\ processed_num = pre.processed_num
        /\ last_action_message = pre.last_action_message
        /\ delivered = pre.delivered

\* a move failed after an earlier key had already advanced the display
C6_Witness == Returned /\ move_res \in MoveErrors /\ processed_num > 0

\* C7: a failed move never ends the program: run_app has not returned because
\* of it, and the loop goes on with the same image displayed.
C7_FailedMoveKeepsRunning == key_res \in MoveErrors => mpc \in {"key_ret", "loop"}

\* C8: a move onto a destination that already holds a file of the source's
\* name returns the collision error, renames nothing, and leaves the source
\* file and the file at the destination as they were.
C8_NeverOverwrites ==
    (Returned /\ MappedToDir(key) /\ pre.fs.dest[pre.current_img[1]] # "none") =>
        /\ move_res = "err_collision"
        /\ key_res = "err_collision"
        /\ fs = pre.fs

\* the move of an image still in the source directory met a file that was in
\* the destination before the program started
C8_Witness ==
    /\ Returned
    /\ move_res = "err_collision"
    /\ current_img[1] \in fs.src
    /\ fs.dest[current_img[1]] = "pre"

\* C9: a key with no entry in the destination mapping is a no-op: on_key
\* returns success and the displayed image, the progress counter, the action
\* log, the queue (nothing received) and the file system are unchanged.
C9_UnmappedKeyIsNoOp ==
    (Returned /\ key \in Keys \ DOMAIN dists) => key_res = "ok" /\ Snapshot = pre

\* C10: a key mapped to the skip sentinel records a Skip entry naming the image
\* that was displayed when the key was pressed and leaves the file system as
\* it was.
C10_SkipRecordsAndKeepsFiles ==
    (mpc \in {"recv", "key_ret"} /\ key \in DOMAIN dists /\ dists[key] = "skip") =>
        /\ last_action_message = <<"skip", pre.current_img[1]>>
        /\ fs = pre.fs
        /\ move_res = "none"

\* a skip returned after the display had moved on to another image
C10_Witness ==
    /\ Returned
    /\ key = "s"
    /\ key_res = "ok"
    /\ current_img # pre.current_img
    /\ last_action_message = <<"skip", pre.current_img[1]>>

\* The consumer is still receiving and a receive now reports disconnect:
\* the queue is empty and every sender handle has been dropped.
Disconnected == rx_alive /\ queue = <<>> /\ ~SendersAlive /\ mpc \notin {"start", "spawn", "new"}

\* C11: an index whose image fails to open or decode is never enqueued and is
\* handed out only once; the worker that met the failure is not stopped by it;
\* and when the consumer has drained the queue up to disconnect, the tasks it
\* received are as many as the catalog images that decode.
C11_FailedDecodeSkipped ==
    /\ sent_set \cap corrupt = {}
    /\ \A i \in corrupt : claims[i] <= 1
    /\ \A w \in Workers : (wpc[w] = "done" /\ rx_alive) => over[w] >= 1
    /\ Disconnected => delivered = img_num - Cardinality(corrupt)

\* the only worker met the undecodable first image, went on, and the consumer
\* has received every other image before the disconnect
C11_Witness ==
    /\ Disconnected
    /\ worker_num = 1
    /\ corrupt = {0}
    /\ img_num >= 2
    /\ delivered = img_num - 1

\* C12: when every image decodes and only directory keys are pressed, each
\* press that returns Ok has logged the move of the image that was displayed;
\* after img_num such presses every file is at the destination, put there by
\* exactly one move, none is left in the source, and the consumer finishes
\* with processed_num = img_num and the result Ok.
C12_AllMovedEndToEnd ==
    (corrupt = {} /\ only_moves /\ img_num > 0) =>
        /\ (mpc = "key_ret" /\ key_res = "ok") =>
              last_action_message = <<"move", pre.current_img[1], dists[key]>>
        /\ mpc # "recv" => processed_num = Cardinality(Images \ fs.src)
        /\ processed_num = img_num =>
              /\ fs.src = {}
              /\ \A i \in Images : fs.dest[i] = "src" /\ acts[i] = 1
              /\ mpc \in {"key_ret", "join", "exit"}
              /\ mpc # "key_ret" => (res = "ok" /\ ~should_quit)

\* the run is over after img_num >= 2 moves and nothing else
C12_Witness ==
    /\ corrupt = {} /\ only_moves /\ img_num >= 2
    /\ processed_num = img_num
    /\ mpc = "exit" /\ res = "ok"
    /\ fs.src = {}

\* C13: for every reported parallelism p >= 1 the number of workers spawned
\* is p - 1 floored at one, so that at least one worker is spawned.
C13_WorkerCountFloored ==
    (par >= 1 /\ mpc \notin {"start", "spawn", "new"} /\ img_num > 0 /\ dir_ok) =>
        /\ spawned = (IF par - 1 >= 1 THEN par - 1 ELSE 1)
        /\ spawned >= 1

\* C14: when the configured directory is not a directory, or the scan finds
\* no eligible image, start-up returns an error, no worker has been spawned
\* and no index has been claimed.
C14_StartupFatalBeforeWorkers ==
    (~dir_ok \/ img_num = 0) =>
        /\ spawned = 0
        /\ next_idx = 0
        /\ \A w \in Workers : wpc[w] = "idle"
        /\ mpc \in {"start", "exit"}
        /\ (mpc = "exit" => res = "err")

\* start-up has returned the error for a readable directory without images
C14_Witness == mpc = "exit" /\ res = "err" /\ dir_ok /\ img_num = 0

\* C15: the step that sets should_quit changes neither the displayed image,
\* nor processed_num, nor the log, nor the file system, nor any worker's
\* position or the shared counter; a worker leaves its loop only from its own
\* claim (idx >= img_num) or from its own failed send; and the program has
\* exited only when every worker has been joined.
C15_QuitOnlySetsFlag ==
    [][ /\ (~should_quit /\ should_quit') =>
              UNCHANGED <<current_img, processed_num, last_action_message, fs,
                          wpc, widx, next_idx, claim_vars, sent_set>>
        /\ \A w \in Workers :
              (wpc[w] # "done" /\ wpc'[w] = "done") =>
                  \/ wpc[w] = "claim" /\ next_idx >= img_num
                  \/ wpc[w] = "send" /\ ~rx_alive
        /\ (mpc' = "exit" /\ should_quit') =>
              \A w \in Workers : wpc'[w] \in {"idle", "done"} ]_vars

\* quit was pressed after a key had been handled, while a worker was still
\* running, and the program has exited
C15_Witness ==
    /\ should_quit /\ mpc = "exit"
    /\ last_action_message # <<>>
    /\ processed_num < img_num
    /\ next_idx > img_num

\* C16: the queue never holds more than cap tasks; a worker whose send finds
\* the queue full stays at that send with its index, and the shared counter
\* is not advanced by it, until a receive makes room or the receiver is
\* dropped; so the decoded images not yet received are at most
\* cap + worker_num.
C16_Backpressure ==
    [][ /\ Len(queue') <= cap
        /\ \A w \in Workers :
              Blocked(w) => /\ wpc'[w] = "send"
                            /\ widx'[w] = widx[w]
                            /\ over'[w] = over[w]
        /\ (\E w \in Workers : wpc[w] = "send" /\ wpc'[w] = "claim") =>
              (Len(queue) < cap /\ rx_alive)
        /\ Len(queue') + Cardinality({w \in Workers : wpc'[w] = "send"})
              <= cap + worker_num ]_vars

\* a worker holds the image that follows the cap queued ones and waits
C16_Witness ==
    /\ Len(queue) = cap
    /\ \E w \in Workers : Blocked(w) /\ widx[w] = cap

\* update_imgstate is inside  self.recver.recv()
Receiving == mpc \in {"first", "recv"}

\* C17: under fair scheduling every blocking receive of the consumer returns,
\* with a task or with the disconnect.
C17_ReceiveReturns == Receiving ~> ~Receiving

\* the consumer waits in recv: nothing is queued and a sender is alive
C17_Witness == mpc = "recv" /\ queue = <<>> /\ SendersAlive

\* every spawned worker thread has left its loop
AllWorkersDone ==
    /\ mpc \notin {"start", "spawn", "new"}
    /\ \A w \in Workers : wpc[w] \in {"idle", "done"}

\* C18: a worker leaves its loop only from a claim of an index >= img_num or
\* from a send that failed because the receiver is gone; when the consumer
\* has received up to the disconnect, every worker has left after exactly one
\* claim of an index >= img_num and every index below img_num has been handed
\* out exactly once; and under fair scheduling, unless the consumer stays
\* for ever in the loop without a key, every worker eventually leaves.
C18_WorkersTerminate ==
    /\ [][ \A w \in Workers :
              (wpc[w] # "done" /\ wpc'[w] = "done") =>
                  \/ wpc[w] = "claim" /\ next_idx >= img_num
                  \/ wpc[w] = "send" /\ ~rx_alive ]_vars
    /\ [](Disconnected =>
              /\ \A w \in 1..worker_num : wpc[w] = "done" /\ over[w] = 1
              /\ \A i \in Images : claims[i] = 1)
    /\ (<>[](mpc = "loop") \/ <>AllWorkersDone)

\* the consumer meets the disconnect after both workers have left their loops
C18_Witness ==
    /\ Disconnected
    /\ mpc = "recv"
    /\ worker_num = 2
    /\ delivered = img_num
    /\ \A w \in 1..worker_num : wpc[w] = "done" /\ over[w] = 1

\* C19: when on_key has moved or skipped, the file that left the source and
\* the name in the log are those of the index carried by the task that was
\* displayed when the key was pressed, whatever the order of arrival; no
\* other file is touched.
C19_ActsOnDisplayedIndex ==
    (mpc \in {"recv", "key_ret"} /\ key \in DOMAIN dists /\ move_res \notin MoveErrors) =>
        LET i == pre.current_img[1]
        IN  /\ last_action_message[2] = i
            /\ acts[i] >= 1
            /\ IF dists[key] = "skip"
                  THEN fs = pre.fs
                  ELSE /\ pre.fs.src \ fs.src = {i}
                       /\ fs.dest[i] = "src"
                       /\ \A j \in Images \ {i} : fs.dest[j] = pre.fs.dest[j]

\* a move was made while the displayed index was not the number of images
\* handled before it: the tasks had arrived out of catalog order
C19_Witness ==
    /\ mpc = "key_ret" /\ key = "x" /\ move_res = "ok"
    /\ corrupt = {}
    /\ pre.current_img[1] # pre.processed_num
    /\ pre.current_img[1] \notin fs.src

\* C20: the file system changes only in a step of the consumer's on_key; when
\* the file of index i is renamed, i has been enqueued and handed out once
\* and no worker holds i; and no worker ever holds the index of a file that
\* has left the source.
C20_NoMoveDecodeRace ==
    [][ /\ fs' # fs => (mpc = "loop" /\ mpc' \in {"recv", "key_ret"} /\ wpc' = wpc)
        /\ \A i \in Images :
              (i \in fs.src /\ i \notin fs'.src) =>
                  /\ i \in sent_set
                  /\ claims[i] = 1
                  /\ \A w \in Workers : ~(wpc[w] \in {"decode", "send"} /\ widx[w] = i)
        /\ \A w \in Workers :
              wpc'[w] \in {"decode", "send"} => widx'[w] \in fs'.src ]_vars

\* a file has been renamed while a worker was decoding another image
C20_Witness ==
    /\ mpc = "recv" /\ move_res = "ok"
    /\ \E w \in Workers : wpc[w] = "decode" /\ widx[w] \in fs.src
    /\ fs.src # Images

\* C21: whenever run_app draws or handles a key (it is in its loop or inside
\* on_key) a current image is present and its index is one of the catalog,
\* so get_imgname finds its path; and when the run has ended without any
\* image received (in particular when no image decodes) it ended with the
\* error of the first receive, before any key was handled.
C21_CurrentImagePresent ==
    /\ mpc \in {"loop", "recv", "key_ret"} =>
          (current_img # <<>> /\ get_imgname \in Images)
    /\ (current_img = <<>> /\ mpc \in {"join", "exit"}) =>
          /\ res = "err"
          /\ processed_num = 0
          /\ last_action_message = <<>>
          /\ fs.src = Images
    /\ (corrupt = Images /\ mpc \in {"join", "exit"}) => current_img = <<>>

\* the only image of the catalog does not decode: run_app has returned the
\* error of the first receive
C21_Witness ==
    /\ img_num >= 1 /\ corrupt = Images
    /\ mpc = "exit" /\ res = "err"
    /\ next_idx > img_num
    /\ current_img = <<>>

\* C22: in every ViewModel that exists is_fin equals progress >= img_num;
\* progress never decreases; and when ViewModel::on_key has returned an error
\* (from app.on_key or from app.get_img) the ViewModel is the one of before
\* the call: image, path, progress, log and is_fin are unchanged.
C22_ViewModelConsistent ==
    [][ /\ vm' # NoVM => (vm'.is_fin <=> vm'.progress >= vm'.img_num)
        /\ vm # NoVM => (vm' # NoVM /\ vm'.progress >= vm.progress
                                    /\ vm'.img_num = vm.img_num)
        /\ (mpc' = "vm" /\ key_res' = "err") => vm' = vm_pre' ]_vars

\* on_key has failed in app.get_img after an earlier call had advanced the
\* ViewModel and this call's skip had been recorded in the log of the App
C22_Witness ==
    /\ vm # NoVM /\ mpc = "vm"
    /\ key_res = "err" /\ key = "s" /\ move_res = "none"
    /\ vm.progress >= 1
    /\ vm.log # last_action_message

====
